---- MODULE Spec2Model ----
(***************************************************************************)
(* A model of youtube-tools: run.py (translate + upload), translate.py     *)
(* (sequential translation) and upload.py (upload, localization update,    *)
(* caption batch).                                                         *)
(*                                                                         *)
(* Texts are finite sequences of tokens: the empty string is <<>>, and a   *)
(* blank token " " stands for whitespace that str.strip() removes.         *)
(* A Python dict is a sequence of [key, val] pairs in insertion order.     *)
(***************************************************************************)
EXTENDS Integers, Sequences, FiniteSets, TLC

(* ------------------------------ bounds -------------------------------- *)

\* How many codes of LangPool are in play.
NumLangs == 3

\* The largest max_workers a configuration sets (0 is included).
MaxWorkers == 2

(* --------------------------- language tables -------------------------- *)

\* Codes of YOUTUBE_LANGUAGES used by the model, in a fixed order.
LangPool == <<"ko", "en", "iw", "zh-CN", "cy">>

Langs == {LangPool[i] : i \in 1..(IF NumLangs < Len(LangPool) THEN NumLangs ELSE Len(LangPool))}

\* DEFAULT_SOURCE_LANG and the languages a configuration may name as source.
SourceLangs == {"ko", "en"} \cap Langs

(* ------------------------------- dicts -------------------------------- *)

DictKeys(d) == {d[i].key : i \in DOMAIN d}

DictHas(d, k) == k \in DictKeys(d)

DictGet(d, k) == d[CHOOSE i \in DOMAIN d : d[i].key = k].val

\* d[k] = v: an existing key keeps its place, a new key goes last.
DictSet(d, k, v) ==
    IF DictHas(d, k)
    THEN [i \in DOMAIN d |-> IF d[i].key = k THEN [key |-> k, val |-> v] ELSE d[i]]
    ELSE Append(d, [key |-> k, val |-> v])

(* ------------------------------- texts -------------------------------- *)

Blank == " "

RECURSIVE LStrip(_)
LStrip(s) == IF s # <<>> /\ Head(s) = Blank THEN LStrip(Tail(s)) ELSE s

RECURSIVE RStrip(_)
RStrip(s) ==
    IF s # <<>> /\ s[Len(s)] = Blank THEN RStrip(SubSeq(s, 1, Len(s) - 1)) ELSE s

\* str.strip()
Strip(s) == RStrip(LStrip(s))

\* The config's title (checked non-empty by main) and description ("" by default).
SrcTitle == <<"title">>
SrcDescriptions == {<<>>, <<"description">>}

\* What generate_content may answer for a text and a target language: a
\* translation padded with whitespace, or whitespace only.
Responses(lang, text) == {<<lang>> \o text \o <<Blank>>, <<Blank>>}

\* The outcome of one translate_text call: a response text, or an exception.
Raised == <<"#raised">>
CallOutcomes(lang, text) == Responses(lang, text) \cup {Raised}

(* ---------------------------------------------------------------------- *)
(* translate_metadata: run.py (thread pool) and translate.py (sequential) *)
(* ---------------------------------------------------------------------- *)

VARIABLES
    impl,          \* "run" | "translate": whose translate_metadata runs
    title,         \* source title
    description,   \* source description
    source_lang,
    target_langs,  \* list of distinct codes, source excluded by the caller
    max_workers,
    tpc,           \* control point of translate_metadata
    nsub,          \* number of tasks submitted / loop index (translate.py)
    workq,         \* the executor's FIFO work queue
    running,       \* languages whose task a worker thread is executing
    tstate,        \* per language: "new","queued","title","desc","done","collected"
    ttitle,        \* per language: translated_title held by the task
    fresult,       \* per language: the future's result tuple (lang, result, error)
    inflight,      \* generate_content requests in flight: <<lang, field>>
    hung,          \* the request that never returns, <<lang, field>>, or None
    calls,         \* per language: number of title / description calls issued
    outcome,       \* per language: how each call ended ("none","ok","raised")
    finished0,     \* as_completed: futures already finished when it was called
    waitq,         \* as_completed: futures finished since, in completion order
    done_order,    \* the futures in the order they finished, with whether
                   \* as_completed had been called by then
    metadata,      \* the document under construction
    completed,
    failed,
    out            \* progress lines printed

tvars == <<done_order, hung, impl, title, description, source_lang, target_langs, max_workers,
           tpc, nsub, workq, running, tstate, ttitle, fresult, inflight, calls,
           outcome, finished0, waitq, metadata, completed, failed, out>>

\* None; Some(x) is a value that is not None.
None == <<>>
Some(x) == <<x>>

\* upload_video (run.py, upload.py) and update_localizations (upload.py)
VARIABLES
    uop,             \* "run.upload_video" | "upload.upload_video" | "upload.update_localizations"
    udoc,            \* the metadata document passed in
    platform_langs,  \* what i18nLanguages.list answers when it succeeds
    upc,             \* control point of the operation
    supported_langs,
    localizations,
    skipped,
    request,         \* the videos.insert / videos.update request built, or None
    response,
    answers,         \* the tuples next_chunk has returned so far
    events,          \* upload progress lines printed
    retval,          \* the value returned, or None
    raised_calls,    \* the backend calls that raised, in order
    reconciled       \* what each run of the reconciler loop produced, in order

uvars == <<uop, udoc, platform_langs, upc, supported_langs, localizations, skipped,
           request, response, answers, events, retval, raised_calls, reconciled>>

\* upload_captions (upload.py)
VARIABLES
    video_id,    \* the video the captions are for, or None
    cdir,        \* the names of the files in the captions directory
    cpc,         \* control point of upload_captions
    srt_files,
    cidx,        \* number of files the loop has handled
    csuccess,
    cfailed,
    cattempts    \* the captions.insert calls made, in order

cvars == <<video_id, cdir, cpc, srt_files, cidx, csuccess, cfailed, cattempts>>

\* main (run.py, upload.py)
VARIABLES
    prog,           \* "run.py" | "upload.py": whose main runs
    args_video_id,  \* --video-id of upload.py, or None
    mpc,            \* control point of main
    skip_translate, \* --skip-translate
    exit_reason,    \* why sys.exit(1) was called, or None
    metadata_file   \* the content of metadata.json, or None

mvars == <<prog, args_video_id, mpc, skip_translate, exit_reason, metadata_file>>

vars == <<tvars, uvars, cvars, mvars>>

UploadIdle ==
    /\ uop = "idle" /\ udoc = <<>> /\ platform_langs = {} /\ upc = "idle"
    /\ supported_langs = {} /\ localizations = <<>> /\ skipped = <<>>
    /\ request = None /\ response = None /\ answers = <<>> /\ events = <<>>
    /\ retval = None /\ raised_calls = <<>> /\ reconciled = <<>>

CaptionsIdle ==
    /\ video_id = None /\ cdir = {} /\ cpc = "idle" /\ srt_files = <<>> /\ cidx = 0
    /\ csuccess = <<>> /\ cfailed = <<>> /\ cattempts = <<>>

MainIdle ==
    /\ prog = "idle" /\ args_video_id = None
    /\ mpc = "idle" /\ skip_translate = FALSE /\ exit_reason = None /\ metadata_file = None

\* Lines 157-169 of run.py: the default entry and the source-language entry.
SeedRun(t, d, s) ==
    DictSet(<<[key |-> "default",
               val |-> [title |-> t, description |-> d, language |-> s]]>>,
            s, [title |-> t, description |-> d])

\* Lines 115-121 of translate.py: the default entry only.
SeedTranslate(t, d, s) ==
    <<[key |-> "default", val |-> [title |-> t, description |-> d, language |-> s]]>>

SeedMetadata(i, t, d, s) == IF i = "run" THEN SeedRun(t, d, s) ELSE SeedTranslate(t, d, s)

\* Lists of distinct target codes in pool order, the source left out
\* (run.py:387, translate.py:181).
RECURSIVE ExcludeSource(_, _)
ExcludeSource(langs, s) ==
    IF langs = <<>> THEN <<>>
    ELSE IF Head(langs) = s THEN ExcludeSource(Tail(langs), s)
    ELSE <<Head(langs)>> \o ExcludeSource(Tail(langs), s)

RECURSIVE SubLists(_)
SubLists(l) ==
    IF l = <<>> THEN {<<>>}
    ELSE LET rest == SubLists(Tail(l))
         IN  rest \cup {<<Head(l)>> \o r : r \in rest}

ConfigLangLists == SubLists(SubSeq(LangPool, 1, Cardinality(Langs)))

TargetSet == {target_langs[i] : i \in DOMAIN target_langs}

TranslateIdle ==
    /\ workq = <<>>
    /\ running = {}
    /\ tstate = [l \in Langs |-> "new"]
    /\ ttitle = [l \in Langs |-> None]
    /\ fresult = [l \in Langs |-> None]
    /\ inflight = {}
    /\ calls = [l \in Langs |-> [title |-> 0, description |-> 0]]
    /\ outcome = [l \in Langs |-> [title |-> "none", description |-> "none"]]
    /\ finished0 = {}
    /\ waitq = <<>>
    /\ done_order = <<>>
    /\ nsub = 0
    /\ completed = 0
    /\ failed = <<>>
    /\ out = <<>>

InitTranslate ==
    /\ hung = None
    /\ impl \in {"run", "translate"}
    /\ title = SrcTitle
    /\ description \in SrcDescriptions
    /\ source_lang \in SourceLangs
    /\ target_langs \in {ExcludeSource(c, source_lang) : c \in ConfigLangLists}
    /\ max_workers \in (IF impl = "run" THEN 0..MaxWorkers ELSE {1})
    /\ tpc = (IF impl = "run" THEN "entry" ELSE "loop")
    /\ metadata = SeedMetadata(impl, title, description, source_lang)
    /\ TranslateIdle
    /\ UploadIdle /\ CaptionsIdle /\ MainIdle

(* ----- run.py: ThreadPoolExecutor + as_completed ----- *)

\* ThreadPoolExecutor(max_workers): "max_workers must be greater than 0".
ExecutorCreate ==
    /\ impl = "run" /\ tpc = "entry"
    /\ tpc' = IF max_workers <= 0 THEN "raised" ELSE "submit"
    /\ UNCHANGED <<uvars, cvars, mvars>>
    /\ UNCHANGED <<done_order, hung, impl, title, description, source_lang, target_langs, max_workers,
                   nsub, workq, running, tstate, ttitle, fresult, inflight, calls,
                   outcome, finished0, waitq, metadata, completed, failed, out>>

\* executor.submit(translate_single_lang, ..., lang) for the next language.
Submit ==
    /\ impl = "run" /\ tpc = "submit"
    /\ nsub < Len(target_langs)
    /\ LET l == target_langs[nsub + 1]
       IN  /\ workq' = Append(workq, l)
           /\ tstate' = [tstate EXCEPT ![l] = "queued"]
    /\ nsub' = nsub + 1
    /\ UNCHANGED <<uvars, cvars, mvars>>
    /\ UNCHANGED <<done_order, hung, impl, title, description, source_lang, target_langs, max_workers,
                   tpc, running, ttitle, fresult, inflight, calls, outcome,
                   finished0, waitq, metadata, completed, failed, out>>

\* The pool runs at most max_workers threads, each on one work item.
WorkerFreeUnbounded == TRUE
WorkerFree == Cardinality(running) < max_workers

\* A worker takes the oldest work item and enters translate_single_lang,
\* which issues the title request (run.py:144-146).
StartTask ==
    /\ impl = "run" /\ tpc \in {"submit", "collect"}
    /\ workq # <<>>
    /\ WorkerFree
    /\ LET l == Head(workq)
       IN  /\ running' = running \cup {l}
           /\ tstate' = [tstate EXCEPT ![l] = "title"]
           /\ inflight' = inflight \cup {<<l, "title">>}
           /\ calls' = [calls EXCEPT ![l].title = @ + 1]
    /\ workq' = Tail(workq)
    /\ UNCHANGED <<uvars, cvars, mvars>>
    /\ UNCHANGED <<done_order, hung, impl, title, description, source_lang, target_langs, max_workers,
                   tpc, nsub, ttitle, fresult, outcome, finished0, waitq, metadata,
                   completed, failed, out>>

\* Where translate_single_lang goes after the title call: on to the
\* description call, or, the exception caught, to its return (run.py:145-150).
AfterTitleSwallow(raised) == "desc"
AfterTitle(raised) == IF raised THEN "done" ELSE "desc"

\* The tuple translate_single_lang returns (run.py:148, 150).
SingleLangResult(l, t, d, raised) ==
    IF raised THEN [lang |-> l, result |-> None, error |-> <<"error">>]
    ELSE [lang |-> l, result |-> Some([title |-> t, description |-> d]), error |-> None]

\* A future completes: the worker is released and, once as_completed waits,
\* the future joins its completion queue.
FutureDone(l, res) ==
    /\ fresult' = [fresult EXCEPT ![l] = res]
    /\ running' = running \ {l}
    /\ waitq' = IF tpc = "collect" THEN Append(waitq, l) ELSE waitq
    /\ done_order' = Append(done_order, [lang |-> l, waited |-> tpc = "collect"])

\* The title request of language l ends with outcome o.
TitleReturn ==
    /\ impl = "run"
    /\ \E l \in Langs : \E o \in CallOutcomes(l, title) :
        /\ tstate[l] = "title"
        /\ <<l, "title">> \in inflight
        /\ hung # Some(<<l, "title">>)
        /\ outcome' = [outcome EXCEPT ![l].title = IF o = Raised THEN "raised" ELSE "ok"]
        /\ ttitle' = [ttitle EXCEPT ![l] = IF o = Raised THEN None ELSE Strip(o)]
        /\ IF AfterTitle(o = Raised) = "desc"
           THEN /\ tstate' = [tstate EXCEPT ![l] = "desc"]
                /\ inflight' = (inflight \ {<<l, "title">>}) \cup {<<l, "description">>}
                /\ calls' = [calls EXCEPT ![l].description = @ + 1]
                /\ UNCHANGED <<fresult, running, waitq, done_order>>
           ELSE /\ tstate' = [tstate EXCEPT ![l] = "done"]
                /\ inflight' = inflight \ {<<l, "title">>}
                /\ FutureDone(l, SingleLangResult(l, None, None, TRUE))
                /\ UNCHANGED calls
    /\ UNCHANGED <<uvars, cvars, mvars>>
    /\ UNCHANGED <<hung, impl, title, description, source_lang, target_langs, max_workers,
                   tpc, nsub, workq, finished0, metadata, completed, failed, out>>

\* The description request of language l ends with outcome o.
DescReturn ==
    /\ impl = "run"
    /\ \E l \in Langs : \E o \in CallOutcomes(l, description) :
        /\ tstate[l] = "desc"
        /\ <<l, "description">> \in inflight
        /\ hung # Some(<<l, "description">>)
        /\ outcome' = [outcome EXCEPT ![l].description = IF o = Raised THEN "raised" ELSE "ok"]
        /\ tstate' = [tstate EXCEPT ![l] = "done"]
        /\ inflight' = inflight \ {<<l, "description">>}
        /\ FutureDone(l, SingleLangResult(l, ttitle[l], Strip(o), o = Raised))
    /\ UNCHANGED <<uvars, cvars, mvars>>
    /\ UNCHANGED <<hung, impl, title, description, source_lang, target_langs, max_workers,
                   tpc, nsub, workq, ttitle, calls, finished0, metadata, completed,
                   failed, out>>

\* as_completed(futures) is called once every task is submitted: the futures
\* already finished are yielded first (from a set, in no particular order).
AsCompleted ==
    /\ impl = "run" /\ tpc = "submit"
    /\ nsub = Len(target_langs)
    /\ finished0' = {l \in Langs : tstate[l] = "done"}
    /\ tpc' = "collect"
    /\ UNCHANGED <<uvars, cvars, mvars>>
    /\ UNCHANGED <<done_order, hung, impl, title, description, source_lang, target_langs, max_workers,
                   nsub, workq, running, tstate, ttitle, fresult, inflight, calls,
                   outcome, waitq, metadata, completed, failed, out>>

\* `if result:` a dict with the keys title and description is truthy.
TruthyNonBlank(result) == result # None /\ result[1].title # <<>>
Truthy(result) == result # None

\* One iteration of the collecting loop on the future of language f (run.py:182-191).
CollectFuture(f) ==
    LET r == fresult[f]
    IN  /\ completed' = completed + 1
        /\ tstate' = [tstate EXCEPT ![f] = "collected"]
        /\ IF Truthy(r.result)
           THEN /\ metadata' = DictSet(metadata, r.lang, r.result[1])
                /\ out' = Append(out, [n |-> completed + 1, total |-> Len(target_langs),
                                       lang |-> r.lang, ok |-> TRUE])
                /\ UNCHANGED failed
           ELSE /\ failed' = Append(failed, r.lang)
                /\ out' = Append(out, [n |-> completed + 1, total |-> Len(target_langs),
                                       lang |-> r.lang, ok |-> FALSE])
                /\ UNCHANGED metadata

\* The waiter's finished futures are yielded oldest first (as_completed
\* reverses the list and pops from its end).
YieldNewest(q) == [future |-> q[Len(q)], rest |-> SubSeq(q, 1, Len(q) - 1)]
YieldOldest(q) == [future |-> Head(q), rest |-> Tail(q)]

Collect ==
    /\ impl = "run" /\ tpc = "collect"
    /\ IF finished0 # {}
       THEN \E f \in finished0 :
                /\ CollectFuture(f)
                /\ finished0' = finished0 \ {f}
                /\ UNCHANGED waitq
       ELSE /\ waitq # <<>>
            /\ CollectFuture(YieldOldest(waitq).future)
            /\ waitq' = YieldOldest(waitq).rest
            /\ UNCHANGED finished0
    /\ UNCHANGED <<uvars, cvars, mvars>>
    /\ UNCHANGED <<done_order, hung, impl, title, description, source_lang, target_langs, max_workers,
                   tpc, nsub, workq, running, ttitle, fresult, inflight, calls, outcome>>

\* Every future has been yielded: the executor shuts down and the document
\* is returned (run.py:193-196).
AllYieldedEarly == finished0 = {} /\ waitq = <<>>
AllYielded == \A l \in TargetSet : tstate[l] = "collected"

TranslateReturn ==
    /\ impl = "run" /\ tpc = "collect"
    /\ AllYielded
    /\ tpc' = "returned"
    /\ UNCHANGED <<uvars, cvars, mvars>>
    /\ UNCHANGED <<done_order, hung, impl, title, description, source_lang, target_langs, max_workers,
                   nsub, workq, running, tstate, ttitle, fresult, inflight, calls,
                   outcome, finished0, waitq, metadata, completed, failed, out>>

(* ----- translate.py: the sequential loop (translate.py:123-140) ----- *)

\* The next iteration starts: the title request of target_langs[nsub + 1].
SeqStartLang ==
    /\ impl = "translate" /\ tpc = "loop"
    /\ nsub < Len(target_langs)
    /\ LET l == target_langs[nsub + 1]
       IN  /\ tstate[l] = "new"
           /\ tstate' = [tstate EXCEPT ![l] = "title"]
           /\ inflight' = inflight \cup {<<l, "title">>}
           /\ calls' = [calls EXCEPT ![l].title = @ + 1]
    /\ UNCHANGED <<uvars, cvars, mvars>>
    /\ UNCHANGED <<done_order, hung, impl, title, description, source_lang, target_langs, max_workers,
                   tpc, nsub, workq, running, ttitle, fresult, outcome, finished0,
                   waitq, metadata, completed, failed, out>>

\* The title request returns, and the description request is issued; or it
\* raises, and the except clause ends the iteration.
SeqTitleReturn ==
    /\ impl = "translate" /\ tpc = "loop"
    /\ nsub < Len(target_langs)
    /\ LET l == target_langs[nsub + 1]
       IN  \E o \in CallOutcomes(l, title) :
            /\ tstate[l] = "title"
            /\ outcome' = [outcome EXCEPT ![l].title = IF o = Raised THEN "raised" ELSE "ok"]
            /\ ttitle' = [ttitle EXCEPT ![l] = IF o = Raised THEN None ELSE Strip(o)]
            /\ IF o = Raised
               THEN /\ tstate' = [tstate EXCEPT ![l] = "done"]
                    /\ inflight' = inflight \ {<<l, "title">>}
                    /\ nsub' = nsub + 1
                    /\ out' = Append(out, [n |-> nsub + 1, total |-> Len(target_langs),
                                           lang |-> l, ok |-> FALSE])
                    /\ UNCHANGED calls
               ELSE /\ tstate' = [tstate EXCEPT ![l] = "desc"]
                    /\ inflight' = (inflight \ {<<l, "title">>}) \cup {<<l, "description">>}
                    /\ calls' = [calls EXCEPT ![l].description = @ + 1]
                    /\ UNCHANGED <<nsub, out>>
    /\ UNCHANGED <<uvars, cvars, mvars>>
    /\ UNCHANGED <<done_order, hung, impl, title, description, source_lang, target_langs, max_workers,
                   tpc, workq, running, fresult, finished0, waitq, metadata,
                   completed, failed>>

\* The description request returns, and the entry is stored; or it raises.
SeqDescReturn ==
    /\ impl = "translate" /\ tpc = "loop"
    /\ nsub < Len(target_langs)
    /\ LET l == target_langs[nsub + 1]
       IN  \E o \in CallOutcomes(l, description) :
            /\ tstate[l] = "desc"
            /\ outcome' = [outcome EXCEPT ![l].description = IF o = Raised THEN "raised" ELSE "ok"]
            /\ tstate' = [tstate EXCEPT ![l] = "done"]
            /\ inflight' = inflight \ {<<l, "description">>}
            /\ metadata' = IF o = Raised THEN metadata
                           ELSE DictSet(metadata, l, [title |-> ttitle[l],
                                                      description |-> Strip(o)])
            /\ out' = Append(out, [n |-> nsub + 1, total |-> Len(target_langs),
                                   lang |-> l, ok |-> o # Raised])
    /\ nsub' = nsub + 1
    /\ UNCHANGED <<uvars, cvars, mvars>>
    /\ UNCHANGED <<done_order, hung, impl, title, description, source_lang, target_langs, max_workers,
                   tpc, workq, running, ttitle, fresult, calls, finished0, waitq,
                   completed, failed>>

SeqReturn ==
    /\ impl = "translate" /\ tpc = "loop"
    /\ nsub = Len(target_langs)
    /\ tpc' = "returned"
    /\ UNCHANGED <<uvars, cvars, mvars>>
    /\ UNCHANGED <<done_order, hung, impl, title, description, source_lang, target_langs, max_workers,
                   nsub, workq, running, tstate, ttitle, fresult, inflight, calls,
                   outcome, finished0, waitq, metadata, completed, failed, out>>


NextTranslate ==
    \/ ExecutorCreate
    \/ Submit
    \/ StartTask
    \/ TitleReturn
    \/ DescReturn
    \/ AsCompleted
    \/ Collect
    \/ TranslateReturn
    \/ SeqStartLang
    \/ SeqTitleReturn
    \/ SeqDescReturn
    \/ SeqReturn

SpecTranslate == InitTranslate /\ [][NextTranslate]_vars

(* ----- run.py translate_metadata with a request that may never return ----- *)

\* Two target languages, in either order; at most one request hangs.
HangTargets == {<<"en", "iw">>, <<"iw", "en">>}

InitTranslateHang ==
    /\ impl = "run"
    /\ title = SrcTitle
    /\ description = <<"description">>
    /\ source_lang = "ko"
    /\ target_langs \in HangTargets
    /\ hung \in {None} \cup {Some(<<l, f>>) : l \in {"en", "iw"}, f \in {"title", "description"}}
    /\ max_workers \in 0..MaxWorkers
    /\ tpc = "entry"
    /\ metadata = SeedMetadata(impl, title, description, source_lang)
    /\ TranslateIdle
    /\ UploadIdle /\ CaptionsIdle /\ MainIdle

NextTranslateRun ==
    \/ ExecutorCreate
    \/ Submit
    \/ StartTask
    \/ TitleReturn
    \/ DescReturn
    \/ AsCompleted
    \/ Collect
    \/ TranslateReturn

\* The main thread and the worker threads keep running, and every request
\* other than the hung one ends.
SpecTranslateHang ==
    /\ InitTranslateHang
    /\ [][NextTranslateRun]_vars
    /\ WF_vars(ExecutorCreate)
    /\ WF_vars(Submit)
    /\ WF_vars(StartTask)
    /\ WF_vars(TitleReturn)
    /\ WF_vars(DescReturn)
    /\ WF_vars(AsCompleted)
    /\ WF_vars(Collect)
    /\ WF_vars(TranslateReturn)

(* ---------------------------------------------------------------------- *)
(* upload_video (run.py, upload.py), update_localizations (upload.py)     *)
(* ---------------------------------------------------------------------- *)

\* The largest number of non-default entries of an input document.
MaxEntries == 2

\* The largest number of progress tuples the backend reports in one upload.
MaxChunks == 2

YOUTUBE_LANG_MAP ==
    ("iw" :> "he") @@ ("zh-CN" :> "zh-Hans") @@ ("zh-TW" :> "zh-Hant") @@ ("fil" :> "tl")

\* YOUTUBE_LANG_MAP.get(lang, lang)
YoutubeLangIdentity(lang) == lang
YoutubeLang(lang) ==
    IF lang \in DOMAIN YOUTUBE_LANG_MAP THEN YOUTUBE_LANG_MAP[lang] ELSE lang

\* The set get_supported_languages returns when the query fails (run.py:242-250).
FallbackLangs ==
    {"af", "ar", "az", "be", "bg", "bn", "bs", "ca", "cs", "da", "de",
     "el", "en", "es", "et", "fa", "fi", "fr", "gu", "hi", "hr", "hu",
     "hy", "id", "is", "it", "ja", "ka", "kk", "km", "kn", "ko", "ky",
     "lo", "lt", "lv", "mk", "ml", "mn", "mr", "ms", "my", "ne", "nl",
     "no", "pa", "pl", "pt", "ro", "ru", "si", "sk", "sl", "sq", "sr",
     "sv", "sw", "ta", "te", "th", "tl", "tr", "uk", "ur", "uz", "vi",
     "zh-Hans", "zh-Hant", "zu"}

\* Answers of the platform's i18nLanguages.list the model considers.
SupportedChoices ==
    {{"ko", "en", "he", "zh-Hans", "zh-CN", "cy"}, {"ko", "en", "iw", "zh-CN"}, {}}

\* dict.get(f, dflt) and dict.get(f) on one entry's record.
FieldOr(data, f, dflt) == IF f \in DOMAIN data THEN data[f] ELSE dflt
FieldGet(data, f) == FieldOr(data, f, None)

\* An empty dict (or None): falsy.
EmptyRec == <<>>
TruthyDict(data) == DOMAIN data # {}

\* metadata.get("default", {})
DefaultOf(doc) == IF DictHas(doc, "default") THEN DictGet(doc, "default") ELSE EmptyRec

\* Path(video_path).stem, categoryId, the privacy level of the configuration.
VideoStem == <<"video">>
CategoryId == "22"
Privacy == "private"

(* ----- input documents ----- *)

DocKeyPool == {"iw", "he", "zh-CN", "cy"}

\* The records an entry may hold: complete, empty title, description
\* missing, and the empty record.
EntryVariants(k) ==
    {[title |-> <<"T", k>>, description |-> <<"D", k>>],
     [title |-> <<>>, description |-> <<"D", k>>],
     [title |-> <<"T", k>>],
     EmptyRec}

RECURSIVE KeySeqs(_)
KeySeqs(n) ==
    IF n = 0 THEN {<<>>}
    ELSE LET shorter == KeySeqs(n - 1)
         IN  shorter \cup {Append(ks, k) : ks \in shorter, k \in DocKeyPool} 

Distinct(ks) == \A i, j \in DOMAIN ks : i # j => ks[i] # ks[j]

RECURSIVE DocsFor(_)
DocsFor(ks) ==
    IF ks = <<>> THEN {<<>>}
    ELSE {<<[key |-> Head(ks), val |-> v]>> \o rest :
            v \in EntryVariants(Head(ks)), rest \in DocsFor(Tail(ks))}

DefaultEntry ==
    [key |-> "default",
     val |-> [title |-> SrcTitle, description |-> <<"description">>, language |-> "ko"]]

UploadDocs ==
    UNION {{pre \o d : pre \in {<<>>, <<DefaultEntry>>}, d \in DocsFor(ks)} :
             ks \in {q \in KeySeqs(MaxEntries) : Distinct(q)}}

(* ----- the reconciler loop of run.py upload_video (run.py:265-285) ----- *)

\* `if not loc_title or not loc_desc`
HasDataTitleOnly(data) == FieldGet(data, "title") # <<>>
HasData(data) == FieldGet(data, "title") # <<>> /\ FieldGet(data, "description") # <<>>

\* `if yt_lang not in supported_langs`
IsSupportedAlways(yt_lang, supported) == TRUE
IsSupported(yt_lang, supported) == yt_lang \in supported

NoData == "no data"
Unsupported == "unsupported"

RECURSIVE ReconcileFrom(_, _, _, _)
ReconcileFrom(items, supported, loc, skip) ==
    IF items = <<>> THEN [localizations |-> loc, skipped |-> skip]
    ELSE LET lang == Head(items).key
             data == Head(items).val
         IN  IF lang = "default" \/ ~TruthyDict(data)
             THEN ReconcileFrom(Tail(items), supported, loc, skip)
             ELSE IF ~HasData(data)
             THEN ReconcileFrom(Tail(items), supported, loc, Append(skip, <<lang, NoData>>))
             ELSE IF ~IsSupported(YoutubeLang(lang), supported)
             THEN ReconcileFrom(Tail(items), supported, loc,
                                Append(skip, <<lang, Unsupported>>))
             ELSE ReconcileFrom(Tail(items), supported,
                                DictSet(loc, YoutubeLang(lang),
                                        [title |-> FieldGet(data, "title"),
                                         description |-> FieldGet(data, "description")]),
                                skip)

Reconcile(doc, supported) == ReconcileFrom(doc, supported, <<>>, <<>>)

(* ----- the localizations loops of upload.py (upload.py:80-87, 144-152) ----- *)

RECURSIVE ForwardFrom(_, _, _, _)
ForwardFrom(items, t, d, loc) ==
    IF items = <<>> THEN loc
    ELSE LET lang == Head(items).key
             data == Head(items).val
         IN  IF lang # "default"
             THEN ForwardFrom(Tail(items), t, d,
                              DictSet(loc, lang, [title |-> FieldOr(data, "title", t),
                                                  description |-> FieldOr(data, "description", d)]))
             ELSE ForwardFrom(Tail(items), t, d, loc)

ForwardAll(doc, t, d) == ForwardFrom(doc, t, d, <<>>)

(* ----- what the loops leave of the document ----- *)

\* data.get(f, dflt) reads the record and leaves it as it is; setdefault
\* would store dflt under a missing key.
SetDefaultFills(data, f, dflt) == IF f \in DOMAIN data THEN data ELSE data @@ (f :> dflt)
GetLeaves(data, f, dflt) == data

\* The document after the loop over metadata.items() has read the title and
\* the description of every entry other than `default` (run.py:267-285,
\* upload.py:82-87, 147-152).
DocAfterReads(doc, t, d) ==
    [i \in DOMAIN doc |->
        IF doc[i].key = "default" THEN doc[i]
        ELSE [key |-> doc[i].key,
              val |-> GetLeaves(GetLeaves(doc[i].val, "title", t), "description", d)]]

(* ----- request bodies ----- *)

\* `if localizations: parts += ",localizations"` (run.py:308-310, upload.py:107-109)
InsertPartsAlways(loc) == <<"snippet", "status", "localizations">>
InsertParts(loc) ==
    IF loc # <<>> THEN <<"snippet", "status", "localizations">> ELSE <<"snippet", "status">>

\* run.py:291-305, upload.py:89-103
InsertBody(doc, loc) ==
    LET default == DefaultOf(doc)
        snippet == [title |-> FieldOr(default, "title", VideoStem),
                    description |-> FieldOr(default, "description", <<>>),
                    categoryId |-> CategoryId,
                    defaultLanguage |-> FieldOr(default, "language", "en")]
        status == [privacyStatus |-> Privacy, selfDeclaredMadeForKids |-> FALSE]
    IN  IF loc # <<>>
        THEN [snippet |-> snippet, status |-> status, localizations |-> loc]
        ELSE [snippet |-> snippet, status |-> status]

\* youtube.videos().insert(part=parts, body=body, media_body=media)
InsertRequest(doc, loc) ==
    [kind |-> "insert", part |-> InsertParts(loc), body |-> InsertBody(doc, loc)]

\* The snippet videos.list returns for the existing video.
CurrentSnippet ==
    [title |-> <<"current title">>, description |-> <<"current description">>,
     categoryId |-> CategoryId]

\* upload.py:158-168
UpdateRequest(doc, loc, snippet) ==
    LET default == DefaultOf(doc)
    IN  [kind |-> "update", part |-> <<"snippet", "localizations">>,
         body |-> [id |-> "VIDEO_ID",
                   snippet |-> [title |-> FieldOr(default, "title", snippet.title),
                                description |-> FieldOr(default, "description",
                                                        FieldOr(snippet, "description", <<>>)),
                                categoryId |-> snippet.categoryId],
                   localizations |-> loc]]

InitUpload ==
    /\ uop \in {"run.upload_video", "upload.upload_video", "upload.update_localizations"}
    /\ udoc \in UploadDocs
    /\ platform_langs \in SupportedChoices
    /\ upc = "start"
    /\ supported_langs = {} /\ localizations = <<>> /\ skipped = <<>>
    /\ request = None /\ response = None /\ answers = <<>> /\ events = <<>>
    /\ retval = None /\ raised_calls = <<>> /\ reconciled = <<>>
    /\ hung = None /\ impl = "run" /\ title = SrcTitle /\ description = <<>> /\ source_lang = "ko"
    /\ target_langs = <<>> /\ max_workers = 1 /\ tpc = "idle" /\ metadata = <<>>
    /\ TranslateIdle /\ CaptionsIdle /\ MainIdle

\* What get_supported_languages returns (run.py:236-250): the ids the query
\* answered, or the fallback set when the query raised.
SupportedAnswerNoFallback(ok, platform) == platform
SupportedAnswer(ok, platform) == IF ok THEN platform ELSE FallbackLangs

\* get_supported_languages (run.py:234-250): the platform's answer, or the
\* fallback when the query raises.
GetSupportedLanguages ==
    /\ uop = "run.upload_video" /\ upc = "start"
    /\ \E ok \in BOOLEAN :
          /\ supported_langs' = SupportedAnswer(ok, platform_langs)
          /\ raised_calls' = IF ok THEN raised_calls
                             ELSE Append(raised_calls, "i18nLanguages.list")
    /\ upc' = "langs"
    /\ UNCHANGED <<reconciled, uop, udoc, platform_langs, localizations, skipped, request,
                   response, answers, events, retval>>
    /\ UNCHANGED <<tvars, cvars, mvars>>

\* run.py:261-313: the reconciler loop, the body and the insert request.
BuildInsertRun ==
    /\ uop = "run.upload_video" /\ upc = "langs"
    /\ LET r == Reconcile(udoc, supported_langs)
       IN  /\ localizations' = r.localizations
           /\ skipped' = r.skipped
           /\ request' = Some(InsertRequest(udoc, r.localizations))
    /\ udoc' = DocAfterReads(udoc, None, None)
    /\ upc' = "uploading"
    /\ UNCHANGED <<reconciled, uop, platform_langs, supported_langs, response, answers,
                   events, retval, raised_calls>>
    /\ UNCHANGED <<tvars, cvars, mvars>>

\* upload.py:74-111: every non-default entry is forwarded.
BuildInsertUpload ==
    /\ uop = "upload.upload_video" /\ upc = "start"
    /\ LET default == DefaultOf(udoc)
           loc == ForwardAll(udoc, FieldOr(default, "title", VideoStem),
                             FieldOr(default, "description", <<>>))
       IN  /\ localizations' = loc
           /\ request' = Some(InsertRequest(udoc, loc))
           /\ udoc' = DocAfterReads(udoc, FieldOr(default, "title", VideoStem),
                                     FieldOr(default, "description", <<>>))
    /\ upc' = "uploading"
    /\ UNCHANGED <<reconciled, uop, platform_langs, supported_langs, skipped, response,
                   answers, events, retval, raised_calls>>
    /\ UNCHANGED <<tvars, cvars, mvars>>

(* ----- the chunk loop (run.py:315-327, upload.py:113-125) ----- *)

VideoIds == {"vidA", "vidB"}

TransportError == [status |-> None, response |-> None, error |-> TRUE]

NumProgress(ans) == Cardinality({i \in DOMAIN ans : ans[i].status # None})

\* What request.next_chunk() may do: report progress, complete, or raise.
BackendAnswers(ans) ==
    (IF NumProgress(ans) < MaxChunks
     THEN {[status |-> Some([resumable_progress |-> NumProgress(ans) + 1,
                             total_size |-> MaxChunks + 1]),
            response |-> None, error |-> FALSE]}
     ELSE {})
    \cup {[status |-> None, response |-> Some([id |-> v]), error |-> FALSE] : v \in VideoIds}
    \cup {TransportError}

\* int(status.progress() * 100)
Percent(status) == (status.resumable_progress * 100) \div status.total_size

\* `while response is None`
LoopForever(resp) == TRUE
LoopContinues(resp) == resp = None

\* next_chunk is called outside any try: an exception it raises leaves
\* upload_video (run.py:316-317, upload.py:114-115).
AfterChunkErrorResume == "uploading"
AfterChunkError == "raised"

NextChunk ==
    /\ uop \in {"run.upload_video", "upload.upload_video"} /\ upc = "uploading"
    /\ LoopContinues(response)
    /\ \E a \in BackendAnswers(answers) :
          IF a.error
          THEN /\ upc' = AfterChunkError
               /\ raised_calls' = Append(raised_calls, "next_chunk")
               /\ UNCHANGED <<response, answers, events>>
          ELSE /\ answers' = Append(answers, a)
               /\ UNCHANGED raised_calls
               /\ response' = a.response
               /\ events' = IF a.status # None
                            THEN Append(events, Percent(a.status[1]))
                            ELSE events
               /\ UNCHANGED upc
    /\ UNCHANGED <<reconciled, uop, udoc, platform_langs, supported_langs, localizations, skipped,
                   request, retval>>
    /\ UNCHANGED <<tvars, cvars, mvars>>

\* video_id = response["id"]; return video_id
UploadReturn ==
    /\ uop \in {"run.upload_video", "upload.upload_video"} /\ upc = "uploading"
    /\ ~LoopContinues(response)
    /\ retval' = Some(response[1].id)
    /\ upc' = "returned"
    /\ UNCHANGED <<reconciled, uop, udoc, platform_langs, supported_langs, localizations, skipped,
                   request, response, answers, events, raised_calls>>
    /\ UNCHANGED <<tvars, cvars, mvars>>

(* ----- update_localizations (upload.py:128-175) ----- *)

\* `except Exception as e: ... return False` (upload.py:173-175); an
\* exception that is not caught leaves the function instead.
Propagated == [upc |-> "raised", retval |-> None]
CaughtFalse == [upc |-> "returned", retval |-> Some(FALSE)]

\* `if not localizations: return True` (upload.py:154-155)
NothingToUpdateNever(loc) == FALSE
NothingToUpdate(loc) == loc = <<>>

\* What videos.list answers: no item, or the video with its snippet.
VideoNotFound == [items |-> <<>>]
VideoFound == [items |-> <<[snippet |-> CurrentSnippet]>>]

\* videos.list: it raises, finds no item, or returns the current snippet;
\* then the localizations are built and, unless empty, the update request.
UpdateFetch ==
    /\ uop = "upload.update_localizations" /\ upc = "start"
    /\ \E r \in {"raise", "empty", "ok"} :
          IF r = "raise"
          THEN /\ retval' = CaughtFalse.retval
               /\ upc' = CaughtFalse.upc
               /\ raised_calls' = Append(raised_calls, "videos.list")
               /\ UNCHANGED <<udoc, response, localizations, request>>
          ELSE IF r = "empty"
          THEN /\ response' = Some(VideoNotFound)
               /\ retval' = Some(FALSE)
               /\ upc' = "returned"
               /\ UNCHANGED <<udoc, raised_calls, localizations, request>>
          ELSE LET snippet == VideoFound.items[1].snippet
                   loc == ForwardAll(udoc, snippet.title,
                                     FieldOr(snippet, "description", <<>>))
               IN  /\ response' = Some(VideoFound)
                   /\ localizations' = loc
                   /\ udoc' = DocAfterReads(udoc, snippet.title,
                                             FieldOr(snippet, "description", <<>>))
                   /\ UNCHANGED raised_calls
                   /\ IF NothingToUpdate(loc)
                      THEN /\ retval' = Some(TRUE)
                           /\ upc' = "returned"
                           /\ UNCHANGED request
                      ELSE /\ request' = Some(UpdateRequest(udoc, loc, snippet))
                           /\ upc' = "updating"
                           /\ UNCHANGED retval
    /\ UNCHANGED <<reconciled, uop, platform_langs, supported_langs, skipped,
                   answers, events>>
    /\ UNCHANGED <<tvars, cvars, mvars>>

\* videos.update(...).execute(): it succeeds, or raises and False is returned.
UpdateExecute ==
    /\ uop = "upload.update_localizations" /\ upc = "updating"
    /\ \E ok \in BOOLEAN :
          IF ok
          THEN /\ retval' = Some(TRUE)
               /\ upc' = "returned"
               /\ UNCHANGED raised_calls
          ELSE /\ retval' = CaughtFalse.retval
               /\ upc' = CaughtFalse.upc
               /\ raised_calls' = Append(raised_calls, "videos.update")
    /\ UNCHANGED <<reconciled, uop, udoc, platform_langs, supported_langs, localizations, skipped,
                   request, response, answers, events>>
    /\ UNCHANGED <<tvars, cvars, mvars>>

(* ----- the reconciler loop run more than once on one input ----- *)

\* `localizations = {}` and `skipped = []` at the head of the loop
\* (run.py:265-266): each run starts from empty collections, whatever an
\* earlier run left.
SkippedKept(prev) == prev
SkippedAtEntry(prev) == <<>>
LocalizationsAtEntry(prev) == <<>>

InitReconcile ==
    /\ uop = "reconcile"
    /\ udoc \in UploadDocs
    /\ platform_langs \in SupportedChoices
    /\ supported_langs \in {platform_langs, FallbackLangs}
    /\ upc = "langs"
    /\ localizations = <<>> /\ skipped = <<>>
    /\ request = None /\ response = None /\ answers = <<>> /\ events = <<>>
    /\ retval = None /\ raised_calls = <<>> /\ reconciled = <<>>
    /\ hung = None /\ impl = "run" /\ title = SrcTitle /\ description = <<>> /\ source_lang = "ko"
    /\ target_langs = <<>> /\ max_workers = 1 /\ tpc = "idle" /\ metadata = <<>>
    /\ TranslateIdle /\ CaptionsIdle /\ MainIdle

\* One run of run.py:265-285 on the document and the supported set.
ReconcileRun ==
    /\ uop = "reconcile" /\ upc = "langs"
    /\ Len(reconciled) < 2
    /\ LET r == ReconcileFrom(udoc, supported_langs,
                              LocalizationsAtEntry(localizations), SkippedAtEntry(skipped))
       IN  /\ localizations' = r.localizations
           /\ skipped' = r.skipped
           /\ reconciled' = Append(reconciled, r)
    /\ UNCHANGED <<uop, udoc, platform_langs, upc, supported_langs, request, response,
                   answers, events, retval, raised_calls>>
    /\ UNCHANGED <<tvars, cvars, mvars>>

SpecReconcile == InitReconcile /\ [][ReconcileRun]_vars

NextUpload ==
    \/ GetSupportedLanguages
    \/ BuildInsertRun
    \/ BuildInsertUpload
    \/ NextChunk
    \/ UploadReturn
    \/ UpdateFetch
    \/ UpdateExecute

SpecUpload == InitUpload /\ [][NextUpload]_vars


(* ---------------------------------------------------------------------- *)
(* upload_captions and upload_caption (upload.py:178-224)                 *)
(* ---------------------------------------------------------------------- *)

\* How many names of FilePool may be in the captions directory.
NumFiles == 5

\* File names are sequences of characters.
FilePool ==
    << <<"k", "o", ".", "s", "r", "t">>,
       <<"e", "n", ".", "s", "r", "t">>,
       <<"r", "e", "a", "d", "m", "e", ".", "t", "x", "t">>,
       <<"e", "n", "-", "G", "B", ".", "s", "r", "t">>,
       <<"k", "o", ".", "t", "x", "t">>,
       <<"j", "a", ".", "s", "r", "t">> >>

FileNames == {FilePool[i] : i \in 1..(IF NumFiles < Len(FilePool) THEN NumFiles ELSE Len(FilePool))}

\* Code points of the characters used.
Ord(c) ==
    CASE c = "-" -> 45 [] c = "." -> 46 [] c = "B" -> 66 [] c = "G" -> 71
      [] c = "a" -> 97 [] c = "d" -> 100 [] c = "e" -> 101 [] c = "j" -> 106
      [] c = "k" -> 107 [] c = "m" -> 109 [] c = "n" -> 110 [] c = "o" -> 111
      [] c = "r" -> 114 [] c = "s" -> 115 [] c = "t" -> 116 [] c = "x" -> 120

\* a < b as Python compares the names of two paths of one directory.
RECURSIVE NameLess(_, _)
NameLess(a, b) ==
    IF b = <<>> THEN FALSE
    ELSE IF a = <<>> THEN TRUE
    ELSE IF Head(a) # Head(b) THEN Ord(Head(a)) < Ord(Head(b))
    ELSE NameLess(Tail(a), Tail(b))

\* sorted(...)
RECURSIVE SortNames(_)
SortNames(S) ==
    IF S = {} THEN <<>>
    ELSE LET m == CHOOSE x \in S : \A y \in S \ {x} : NameLess(x, y)
         IN  <<m>> \o SortNames(S \ {m})

\* glob("*.srt")
MatchesAnything(name) == TRUE
MatchesSrt(name) ==
    Len(name) >= 4 /\ SubSeq(name, Len(name) - 3, Len(name)) = <<".", "s", "r", "t">>

\* Path.stem: the name without its last suffix.
RECURSIVE LastDot(_)
LastDot(name) ==
    IF name = <<>> THEN 0
    ELSE IF name[Len(name)] = "." THEN Len(name)
    ELSE LastDot(SubSeq(name, 1, Len(name) - 1))

Stem(name) ==
    LET i == LastDot(name)
    IN  IF 1 < i /\ i < Len(name) THEN SubSeq(name, 1, i - 1) ELSE name

VideoId == "VIDEO_ID"

InitCaptions ==
    /\ video_id = Some(VideoId)
    /\ cdir \in SUBSET FileNames
    /\ cpc = "start"
    /\ srt_files = <<>> /\ cidx = 0
    /\ csuccess = <<>> /\ cfailed = <<>> /\ cattempts = <<>>
    /\ hung = None /\ impl = "run" /\ title = SrcTitle /\ description = <<>> /\ source_lang = "ko"
    /\ target_langs = <<>> /\ max_workers = 1 /\ tpc = "idle" /\ metadata = <<>>
    /\ TranslateIdle /\ UploadIdle /\ MainIdle

\* upload.py:202-211: the sorted *.srt files; none is a warning and two
\* empty lists.
ListCaptions ==
    /\ cpc = "start"
    /\ srt_files' = SortNames({f \in cdir : MatchesSrt(f)})
    /\ cpc' = IF srt_files' = <<>> THEN "returned" ELSE "loop"
    /\ UNCHANGED <<video_id, cdir, cidx, csuccess, cfailed, cattempts>>
    /\ UNCHANGED <<tvars, uvars, mvars>>

\* One iteration (upload.py:214-222): upload_caption for the next file
\* returns True, or catches an exception and returns False.
UploadCaption ==
    /\ cpc = "loop"
    /\ cidx < Len(srt_files)
    /\ LET srt_file == srt_files[cidx + 1]
           language == Stem(srt_file)
       IN  /\ cattempts' = Append(cattempts,
                                  [videoId |-> video_id[1], language |-> language,
                                   name |-> language, isDraft |-> FALSE,
                                   path |-> srt_file])
           /\ \E ok \in BOOLEAN :
                 /\ csuccess' = IF ok THEN Append(csuccess, language) ELSE csuccess
                 /\ cfailed' = IF ok THEN cfailed ELSE Append(cfailed, language)
    /\ cidx' = cidx + 1
    /\ UNCHANGED <<video_id, cdir, cpc, srt_files>>
    /\ UNCHANGED <<tvars, uvars, mvars>>

\* return success, failed
CaptionsReturn ==
    /\ cpc = "loop"
    /\ cidx = Len(srt_files)
    /\ cpc' = "returned"
    /\ UNCHANGED <<video_id, cdir, srt_files, cidx, csuccess, cfailed, cattempts>>
    /\ UNCHANGED <<tvars, uvars, mvars>>

NextCaptions ==
    \/ ListCaptions
    \/ UploadCaption
    \/ CaptionsReturn

SpecCaptions == InitCaptions /\ [][NextCaptions]_vars


(* ---------------------------------------------------------------------- *)
(* main (run.py:332-436)                                                  *)
(* ---------------------------------------------------------------------- *)

\* The longest `langs` list of a configuration.
MaxConfigLangs == 1

MainConfigLangs == {c \in ConfigLangLists : Len(c) <= MaxConfigLangs}

\* The pool sizes of a configuration: none larger than the longest target
\* list, as further workers stay idle.
MainMaxWorkers == IF MaxWorkers < MaxConfigLangs THEN MaxWorkers ELSE MaxConfigLangs

InitMain ==
    /\ prog = "run.py" /\ args_video_id = None
    /\ mpc = "start"
    /\ skip_translate \in BOOLEAN
    /\ exit_reason = None /\ metadata_file = None
    /\ hung = None /\ impl = "run" /\ title = <<>> /\ description = <<>> /\ source_lang = "ko"
    /\ target_langs = <<>> /\ max_workers = 1 /\ tpc = "idle" /\ metadata = <<>>
    /\ TranslateIdle /\ UploadIdle /\ CaptionsIdle

\* sys.exit(1) with a message.
Exit(why) == mpc' = "exit" /\ exit_reason' = Some(why)

\* run.py:340-342
MainCheckInput ==
    /\ prog = "run.py" /\ mpc = "start"
    /\ \E exists \in BOOLEAN :
          IF exists THEN mpc' = "config" /\ UNCHANGED exit_reason
          ELSE Exit("input file")
    /\ UNCHANGED <<prog, args_video_id, skip_translate, metadata_file>>
    /\ UNCHANGED <<tvars, uvars, cvars>>

\* run.py:344-387: the required fields, the video file, the settings, and
\* the source language taken out of the target list.
MainLoadConfig ==
    /\ prog = "run.py" /\ mpc = "config"
    /\ \E check \in {"no video or title", "no video file", "ok"} :
          IF check # "ok"
          THEN /\ Exit(check)
               /\ UNCHANGED <<title, description, source_lang, target_langs, max_workers>>
          ELSE /\ mpc' = "ready" /\ UNCHANGED exit_reason
               /\ title' = SrcTitle
               /\ description' \in SrcDescriptions
               /\ \E s \in SourceLangs, c \in MainConfigLangs :
                     /\ source_lang' = s
                     /\ target_langs' = ExcludeSource(c, s)
               /\ max_workers' \in 0..MainMaxWorkers
    /\ UNCHANGED <<prog, args_video_id, skip_translate, metadata_file>>
    /\ UNCHANGED <<done_order, hung, impl, tpc, nsub, workq, running, tstate, ttitle, fresult, inflight,
                   calls, outcome, finished0, waitq, metadata, completed, failed, out>>
    /\ UNCHANGED <<uvars, cvars>>

\* The document of a run with --skip-translate (run.py:401-407): the
\* `default` entry alone.
SkipDocument(t, d, s) ==
    <<[key |-> "default", val |-> [title |-> t, description |-> d, language |-> s]]>>

\* run.py:399-407
MainSkipTranslate ==
    /\ prog = "run.py" /\ mpc = "ready" /\ skip_translate
    /\ metadata' = SkipDocument(title, description, source_lang)
    /\ mpc' = "auth"
    /\ UNCHANGED <<prog, args_video_id, skip_translate, exit_reason, metadata_file>>
    /\ UNCHANGED <<done_order, hung, impl, title, description, source_lang, target_langs, max_workers,
                   tpc, nsub, workq, running, tstate, ttitle, fresult, inflight,
                   calls, outcome, finished0, waitq, completed, failed, out>>
    /\ UNCHANGED <<uvars, cvars>>

\* run.py:409-417: GEMINI_API_KEY is required; then translate_metadata is
\* entered (run.py:157-173).
MainStartTranslate ==
    /\ prog = "run.py" /\ mpc = "ready" /\ ~skip_translate
    /\ \E api_key \in BOOLEAN :
          IF api_key
          THEN /\ mpc' = "translating" /\ UNCHANGED exit_reason
               /\ tpc' = "entry"
               /\ metadata' = SeedMetadata(impl, title, description, source_lang)
          ELSE /\ Exit("GEMINI_API_KEY")
               /\ UNCHANGED <<tpc, metadata>>
    /\ UNCHANGED <<prog, args_video_id, skip_translate, metadata_file>>
    /\ UNCHANGED <<done_order, hung, impl, title, description, source_lang, target_langs, max_workers,
                   nsub, workq, running, tstate, ttitle, fresult, inflight,
                   calls, outcome, finished0, waitq, completed, failed, out>>
    /\ UNCHANGED <<uvars, cvars>>

\* json.dump writes a dict as an object: its members, name and value, in
\* insertion order; the value of an entry is itself an object.
RECURSIVE JsonMembers(_, _)
JsonMembers(rec, names) ==
    IF names = <<>> THEN <<>>
    ELSE IF Head(names) \in DOMAIN rec
         THEN <<[name |-> Head(names), value |-> rec[Head(names)]]>>
              \o JsonMembers(rec, Tail(names))
         ELSE JsonMembers(rec, Tail(names))

JsonDump(doc) ==
    [i \in DOMAIN doc |->
        [name |-> doc[i].key,
         value |-> JsonMembers(doc[i].val, <<"title", "description", "language">>)]]

\* The translation has returned (run.py:417).
SaveReadyEarly == tpc \in {"collect", "returned"}
SaveReady == tpc = "returned"

\* run.py:421-424: json.dump(metadata, ...) to metadata.json.
MainSaveMetadata ==
    /\ prog = "run.py" /\ mpc = "translating" /\ SaveReady
    /\ metadata_file' = Some(JsonDump(metadata))
    /\ mpc' = "auth"
    /\ UNCHANGED <<prog, args_video_id, skip_translate, exit_reason>>
    /\ UNCHANGED <<tvars, uvars, cvars>>

\* get_authenticated_service (run.py:201-222) and the call of upload_video
\* (run.py:427-428): without usable credentials and without
\* client_secrets.json the run exits.
MainAuthenticate ==
    /\ prog = "run.py" /\ mpc = "auth"
    /\ \E secrets \in BOOLEAN :
          IF secrets
          THEN /\ mpc' = "uploading" /\ UNCHANGED exit_reason
               /\ uop' = "run.upload_video"
               /\ udoc' = metadata
               /\ upc' = "start"
               /\ platform_langs' \in SupportedChoices
          ELSE /\ Exit("client_secrets.json")
               /\ UNCHANGED <<uop, udoc, upc, platform_langs>>
    /\ UNCHANGED <<prog, args_video_id, skip_translate, metadata_file>>
    /\ UNCHANGED <<reconciled, supported_langs, localizations, skipped, request,
                   response, answers, events, retval, raised_calls>>
    /\ UNCHANGED <<tvars, cvars>>

\* An exception of translate_metadata or upload_video propagates out of main.
MainCrash ==
    /\ prog = "run.py"
    /\ \/ mpc = "translating" /\ tpc = "raised"
       \/ mpc = "uploading" /\ upc = "raised"
    /\ mpc' = "crashed"
    /\ UNCHANGED <<prog, args_video_id, skip_translate, exit_reason, metadata_file>>
    /\ UNCHANGED <<tvars, uvars, cvars>>

\* run.py:430-436
MainDone ==
    /\ prog = "run.py" /\ mpc = "uploading" /\ upc = "returned"
    /\ mpc' = "done"
    /\ UNCHANGED <<prog, args_video_id, skip_translate, exit_reason, metadata_file>>
    /\ UNCHANGED <<tvars, uvars, cvars>>

NextMain ==
    \/ MainCheckInput
    \/ MainLoadConfig
    \/ MainSkipTranslate
    \/ MainStartTranslate
    \/ ExecutorCreate
    \/ Submit
    \/ StartTask
    \/ TitleReturn
    \/ DescReturn
    \/ AsCompleted
    \/ Collect
    \/ TranslateReturn
    \/ MainSaveMetadata
    \/ MainAuthenticate
    \/ GetSupportedLanguages
    \/ BuildInsertRun
    \/ NextChunk
    \/ UploadReturn
    \/ MainCrash
    \/ MainDone

SpecMain == InitMain /\ [][NextMain]_vars


(* ---------------------------------------------------------------------- *)
(* main (upload.py:227-286)                                               *)
(* ---------------------------------------------------------------------- *)

\* What load_metadata may return: None (no metadata.json, written <<>>), a
\* document with only `default`, or one with a further entry.
UploadMainDocs ==
    {<<>>, <<DefaultEntry>>}
    \cup {<<DefaultEntry, [key |-> "iw", val |-> v]>> : v \in EntryVariants("iw")}

\* The captions folders main is run on.
UploadMainDirs == SUBSET {FilePool[i] : i \in 1..3}

InitUploadMain ==
    /\ prog = "upload.py"
    /\ args_video_id \in {None, Some(VideoId)}
    /\ mpc = "start"
    /\ skip_translate = FALSE /\ exit_reason = None /\ metadata_file = None
    /\ cdir \in UploadMainDirs
    /\ video_id = None /\ cpc = "idle" /\ srt_files = <<>> /\ cidx = 0
    /\ csuccess = <<>> /\ cfailed = <<>> /\ cattempts = <<>>
    /\ hung = None /\ impl = "run" /\ title = <<>> /\ description = <<>> /\ source_lang = "ko"
    /\ target_langs = <<>> /\ max_workers = 1 /\ tpc = "idle" /\ metadata = <<>>
    /\ TranslateIdle /\ UploadIdle

\* upload.py:243-252: a video file or --video-id, an existing video file,
\* an existing captions folder.
UploadMainValidate ==
    /\ prog = "upload.py" /\ mpc = "start"
    /\ \E check \in {"no video", "no video file", "no captions folder", "ok"} :
          /\ check = "no video" => args_video_id = None
          /\ IF check = "ok" THEN mpc' = "load" /\ UNCHANGED exit_reason
             ELSE Exit(check)
    /\ UNCHANGED <<prog, args_video_id, skip_translate, metadata_file>>
    /\ UNCHANGED <<tvars, uvars, cvars>>

\* upload.py:255-260: load_metadata, then get_authenticated_service, which
\* exits without usable credentials and without client_secrets.json.
UploadMainLoad ==
    /\ prog = "upload.py" /\ mpc = "load"
    /\ udoc' \in UploadMainDocs
    /\ \E secrets \in BOOLEAN :
          IF secrets THEN mpc' = "dispatch" /\ UNCHANGED exit_reason
          ELSE Exit("client_secrets.json")
    /\ UNCHANGED <<prog, args_video_id, skip_translate, metadata_file>>
    /\ UNCHANGED <<reconciled, uop, platform_langs, upc, supported_langs, localizations, skipped,
                   request, response, answers, events, retval, raised_calls>>
    /\ UNCHANGED <<tvars, cvars>>

\* upload.py:263-271: the existing video (its metadata updated when a
\* document was loaded), or the upload of a new one.
UploadMainDispatch ==
    /\ prog = "upload.py" /\ mpc = "dispatch"
    /\ IF args_video_id # None
       THEN IF udoc # <<>>
            THEN /\ uop' = "upload.update_localizations" /\ upc' = "start"
                 /\ mpc' = "updating"
            ELSE /\ mpc' = "have id"
                 /\ UNCHANGED <<uop, upc>>
       ELSE /\ uop' = "upload.upload_video" /\ upc' = "start"
            /\ mpc' = "uploading"
    /\ UNCHANGED <<prog, args_video_id, skip_translate, exit_reason, metadata_file>>
    /\ UNCHANGED <<reconciled, udoc, platform_langs, supported_langs, localizations,
                   skipped, request, response, answers, events, retval, raised_calls>>
    /\ UNCHANGED <<tvars, cvars>>

\* upload.py:274: upload_captions(youtube, video_id, args.captions); the
\* value update_localizations returned is not looked at.
UploadMainCaptions ==
    /\ prog = "upload.py"
    /\ \/ mpc = "have id"
       \/ mpc \in {"updating", "uploading"} /\ upc = "returned"
    /\ video_id' = IF args_video_id # None THEN args_video_id ELSE retval
    /\ cpc' = "start"
    /\ mpc' = "captions"
    /\ UNCHANGED <<prog, args_video_id, skip_translate, exit_reason, metadata_file>>
    /\ UNCHANGED <<cdir, srt_files, cidx, csuccess, cfailed, cattempts>>
    /\ UNCHANGED <<tvars, uvars>>

\* An exception that leaves upload_video or update_localizations propagates
\* out of main.
UploadMainCrash ==
    /\ prog = "upload.py" /\ mpc \in {"uploading", "updating"} /\ upc = "raised"
    /\ mpc' = "crashed"
    /\ UNCHANGED <<prog, args_video_id, skip_translate, exit_reason, metadata_file>>
    /\ UNCHANGED <<tvars, uvars, cvars>>

\* `if failed:` (upload.py:285)
ExitsNonZeroNever(failed_list) == FALSE
ExitsNonZero(failed_list) == failed_list # <<>>

\* upload.py:276-286: the result lines; `if failed: sys.exit(1)`.
UploadMainFinish ==
    /\ prog = "upload.py" /\ mpc = "captions" /\ cpc = "returned"
    /\ IF ExitsNonZero(cfailed) THEN Exit("caption failures")
       ELSE mpc' = "done" /\ UNCHANGED exit_reason
    /\ UNCHANGED <<prog, args_video_id, skip_translate, metadata_file>>
    /\ UNCHANGED <<tvars, uvars, cvars>>

NextUploadMain ==
    \/ UploadMainValidate
    \/ UploadMainLoad
    \/ UploadMainDispatch
    \/ BuildInsertUpload
    \/ NextChunk
    \/ UploadReturn
    \/ UpdateFetch
    \/ UpdateExecute
    \/ UploadMainCaptions
    \/ ListCaptions
    \/ UploadCaption
    \/ CaptionsReturn
    \/ UploadMainCrash
    \/ UploadMainFinish

SpecUploadMain == InitUploadMain /\ [][NextUploadMain]_vars


(* ---------------------------------------------------------------------- *)
(* The two programs                                                       *)
(* ---------------------------------------------------------------------- *)

InitPrograms == InitMain \/ InitUploadMain

NextPrograms == NextMain \/ NextUploadMain

SpecPrograms == InitPrograms /\ [][NextPrograms]_vars

(* ---------------------------------------------------------------------- *)
(* Properties of main (upload.py)                                         *)
(* ---------------------------------------------------------------------- *)

MainEnded == mpc \in {"done", "exit", "crashed"}

\* The caption batch has run to its end for the video `id`.
CaptionBatchRanFor(id) ==
    /\ cpc = "returned"
    /\ video_id = id
    /\ Len(cattempts) = Len(srt_files)
    /\ \A i \in DOMAIN cattempts : Some(cattempts[i].videoId) = id

\* C11: in the existing-video path a backend error raised by the fetch or by
\* the update of update_localizations is caught and reported as False, never
\* propagated, and main of upload.py does not end after a failed update
\* without having run the caption batch for the same video id.
C11_UpdateErrorCaught ==
    uop = "upload.update_localizations" =>
        /\ upc # "raised" /\ mpc # "crashed"
        /\ raised_calls # <<>> =>
              /\ Len(raised_calls) = 1
              /\ raised_calls[1] \in {"videos.list", "videos.update"}
              /\ upc = "returned" /\ retval = Some(FALSE)
        /\ (retval = Some(FALSE) /\ mpc # "updating") =>
              /\ mpc \in {"captions", "done", "exit"}
              /\ video_id = args_video_id
              /\ MainEnded => CaptionBatchRanFor(args_video_id)

C11_Witness ==
    /\ uop = "upload.update_localizations"
    /\ raised_calls = <<"videos.update">>
    /\ retval = Some(FALSE)
    /\ mpc = "done"
    /\ Len(cattempts) = 2
    /\ CaptionBatchRanFor(Some(VideoId))

TransportErrorRaised == \E i \in DOMAIN raised_calls : raised_calls[i] = "next_chunk"

\* C13: a transport error of next_chunk ends the invocation. From then on
\* next_chunk is not called again (no further answer, no further error), no
\* video id is returned, main of run.py or upload.py does not go on (it
\* crashes), and no caption upload or localization update is made.
C13_TransportErrorFatal ==
    /\ [](TransportErrorRaised =>
            /\ upc = "raised"
            /\ raised_calls[Len(raised_calls)] = "next_chunk"
            /\ Cardinality({i \in DOMAIN raised_calls : raised_calls[i] = "next_chunk"}) = 1
            /\ response = None /\ retval = None
            /\ uop \in {"run.upload_video", "upload.upload_video"}
            /\ mpc \in {"uploading", "crashed"}
            /\ exit_reason = None
            /\ cpc = "idle" /\ video_id = None /\ cattempts = <<>>
            /\ csuccess = <<>> /\ cfailed = <<>>)
    /\ [][TransportErrorRaised =>
            /\ UNCHANGED <<uvars, cvars>>
            /\ mpc' = "crashed"]_vars

C13_Witness ==
    /\ prog = "upload.py" /\ mpc = "crashed"
    /\ raised_calls = <<"next_chunk">>
    /\ Len(answers) >= 1
    /\ DictHas(udoc, "iw")
    /\ \E f \in cdir : Len(f) = 6 /\ SubSeq(f, 3, 6) = <<".", "s", "r", "t">>

\* The exit status of the process once main has ended.
ExitStatus == IF mpc = "done" THEN 0 ELSE 1

NoSrtIn(dir) ==
    \A f \in dir : ~(Len(f) >= 4 /\ SubSeq(f, Len(f) - 3, Len(f)) = <<".", "s", "r", "t">>)

\* C14: once main of upload.py has a video id and has started the caption
\* batch, the process ends with a non-zero status exactly when at least one
\* caption upload failed; a folder without a *.srt file gives two empty
\* lists, no upload call and status zero.
C14_ExitReflectsFailures ==
    (prog = "upload.py" /\ video_id # None) =>
        /\ mpc \in {"captions", "done", "exit"}
        /\ MainEnded =>
              /\ cpc = "returned"
              /\ Len(csuccess) + Len(cfailed) = Len(cattempts)
              /\ ExitStatus # 0 <=> Len(cfailed) >= 1
              /\ ExitStatus # 0 => exit_reason = Some("caption failures")
              /\ NoSrtIn(cdir) =>
                    /\ csuccess = <<>> /\ cfailed = <<>> /\ cattempts = <<>>
                    /\ ExitStatus = 0

C14_Witness ==
    /\ prog = "upload.py" /\ mpc = "exit"
    /\ exit_reason = Some("caption failures")
    /\ Len(csuccess) = 1 /\ Len(cfailed) = 1

C14_WitnessNoFile ==
    /\ prog = "upload.py" /\ mpc = "done" /\ video_id # None
    /\ cdir # {} /\ NoSrtIn(cdir) /\ cattempts = <<>>

(* ---------------------------------------------------------------------- *)
(* Properties of translate_metadata                                       *)
(* ---------------------------------------------------------------------- *)

\* Both requests of language l returned without raising.
BothOk(l) == outcome[l].title = "ok" /\ outcome[l].description = "ok"

FailedSet == {failed[i] : i \in DOMAIN failed}

ExactlyOneFails == Cardinality({t \in TargetSet : ~BothOk(t)}) = 1

\* C1: on return from translate_metadata (run.py and translate.py alike) the
\* document's keys are exactly default, the source language and the target
\* languages whose title and description translations both succeeded.
C1_KeySetBothScripts ==
    tpc = "returned" =>
        DictKeys(metadata) = {"default", source_lang} \cup {t \in TargetSet : BothOk(t)}

\* C2 (as stated): with exactly one failing language among the N of
\* target_langs, the returned document has N entries and the failure list
\* holds that language.
C2_SizeIsN ==
    (impl = "run" /\ tpc = "returned" /\ ExactlyOneFails) =>
        /\ Len(metadata) = Len(target_langs)
        /\ Len(failed) = 1 /\ ~BothOk(failed[1])

\* C2 (amended): with exactly one failing language among the N of
\* target_langs, the returned document has N + 1 entries (default, source,
\* N - 1 targets) and the failure list holds exactly that language, whatever
\* max_workers >= 1 and the completion order; translate_metadata raises only
\* when the pool rejects max_workers <= 0, before any translation call.
C2_OneFailure ==
    impl = "run" =>
        /\ (tpc = "returned" /\ ExactlyOneFails) =>
              /\ Len(metadata) = Len(target_langs) + 1
              /\ Cardinality(DictKeys(metadata)) = Len(target_langs) + 1
              /\ Len(failed) = 1
              /\ failed[1] \in TargetSet /\ ~BothOk(failed[1])
        /\ tpc = "raised" =>
              /\ max_workers <= 0
              /\ \A l \in Langs : calls[l].title = 0 /\ calls[l].description = 0

C2_Witness ==
    /\ impl = "run" /\ tpc = "returned" /\ ExactlyOneFails
    /\ Len(target_langs) >= 2 /\ max_workers >= 2
    /\ \E t \in TargetSet : BothOk(t)

\* C8: per language the title call and then the description call are issued
\* at most once each; the description call is issued only after the title
\* call returned, and never when it raised; a language gets an entry (always
\* with both fields) only if both calls succeeded, and on return every
\* target is either in the document (both succeeded) or in the failure list.
C8_SingleLang ==
    impl = "run" =>
        \A l \in TargetSet :
            /\ calls[l].title <= 1 /\ calls[l].description <= 1
            /\ outcome[l].title = "raised" => calls[l].description = 0
            /\ calls[l].description = 1 => outcome[l].title = "ok"
            /\ DictHas(metadata, l) =>
                  /\ BothOk(l)
                  /\ DOMAIN DictGet(metadata, l) = {"title", "description"}
            /\ l \in FailedSet => ~BothOk(l)
            /\ tpc = "returned" => (DictHas(metadata, l) <=> BothOk(l))
            /\ tpc = "returned" => (l \in FailedSet <=> ~BothOk(l))

C8_Witness ==
    /\ impl = "run" /\ tpc = "returned"
    /\ \E l, m \in TargetSet :
          /\ outcome[l].title = "raised"
          /\ outcome[m].title = "ok" /\ outcome[m].description = "raised"
          /\ ~DictHas(metadata, l) /\ ~DictHas(metadata, m)

\* C9: never more than max_workers tasks execute at once, every request in
\* flight belongs to an executing task, and within one language the
\* description request is in flight only after the title request returned,
\* never together with it.
C9_BoundedPool ==
    impl = "run" =>
        /\ Cardinality(running) <= max_workers
        /\ \A r \in inflight : r[1] \in running
        /\ \A l \in Langs :
              /\ ~(<<l, "title">> \in inflight /\ <<l, "description">> \in inflight)
              /\ <<l, "description">> \in inflight => outcome[l].title = "ok"

C9_Witness ==
    /\ impl = "run"
    /\ Cardinality(running) = max_workers
    /\ workq # <<>>
    /\ \E l \in Langs : <<l, "description">> \in inflight

\* Where the future of language l stands in the order of completion.
DonePos(l) == CHOOSE i \in DOMAIN done_order : done_order[i].lang = l

\* The progress lines are well formed: one per collected future, numbered
\* 1, 2, ..., each language once, with the outcome of its task.
ProgressLinesCount ==
    /\ Len(out) = completed
    /\ Len(out) <= Len(target_langs)
    /\ \A i \in DOMAIN out :
          /\ out[i].n = i
          /\ out[i].total = Len(target_langs)
          /\ out[i].lang \in TargetSet
          /\ \E k \in DOMAIN done_order : done_order[k].lang = out[i].lang
          /\ out[i].ok <=> (outcome[out[i].lang].title = "ok"
                            /\ outcome[out[i].lang].description = "ok")
    /\ \A i, j \in DOMAIN out : i # j => out[i].lang # out[j].lang
    /\ tpc = "returned" =>
          /\ Len(out) = Len(target_langs)
          /\ {out[i].lang : i \in DOMAIN out} = TargetSet

\* C19 as stated: the lines come in the order the tasks completed.
C19_LinesInCompletionOrder ==
    impl = "run" =>
        /\ ProgressLinesCount
        /\ \A i \in DOMAIN out : out[i].lang = done_order[i].lang

\* C19: run.py translate_metadata prints one line per submitted language,
\* success or failure, numbered 1..total without gap or repeat, no language
\* twice. The lines of the tasks that finished before as_completed was called
\* come first, in no particular order; the lines of the tasks that finished
\* later follow in the order of completion.
C19_OneLinePerLanguage ==
    impl = "run" =>
        /\ ProgressLinesCount
        /\ \A i, j \in DOMAIN out :
              i < j =>
                 /\ done_order[DonePos(out[j].lang)].waited =>
                       DonePos(out[i].lang) < DonePos(out[j].lang)
                 /\ ~done_order[DonePos(out[j].lang)].waited =>
                       ~done_order[DonePos(out[i].lang)].waited

C19_Witness ==
    /\ impl = "run" /\ tpc = "returned"
    /\ Len(target_langs) = 2
    /\ out[1].lang = target_langs[2] /\ ~out[1].ok
    /\ out[2].lang = target_langs[1] /\ out[2].ok
    /\ out[2].n = 2
    /\ done_order[1].lang = target_langs[2]
    /\ done_order[1].waited /\ done_order[2].waited

\* The task of language l has completed.
TaskDone(l) == tstate[l] \in {"done", "collected"}

\* No request of language l is the hung one.
NotHung(l) == hung = None \/ hung[1][1] # l

\* The hung request has been issued.
HungIssued == hung # None /\ calls[hung[1][1]][hung[1][2]] >= 1

\* C16 as stated: whatever the pool size (at least one worker), a request
\* that never returns for one language leaves the task of every other target
\* language to start and complete.
C16_OthersCompleteAnyPool ==
    \A l \in {"en", "iw"} :
        (l \in TargetSet /\ NotHung(l) /\ max_workers >= 1) ~> TaskDone(l)

\* C16: with at least two workers a request that never returns for one
\* language leaves the task of every other target language to start and
\* complete; translate_metadata has not returned while the hung request is
\* outstanding; and when no request hangs translate_metadata returns (or,
\* with max_workers <= 0, raises when the pool is created).
C16_HangBlocksOnlyReturn ==
    /\ \A l \in {"en", "iw"} :
          (l \in TargetSet /\ NotHung(l) /\ max_workers >= 2) ~> TaskDone(l)
    /\ [](tpc = "returned" => inflight = {} /\ ~HungIssued)
    /\ [](HungIssued =>
            (tpc # "returned" /\ hung[1] \in inflight /\ ~TaskDone(hung[1][1])))
    /\ (hung = None /\ max_workers >= 1) ~> (tpc = "returned")
    /\ (hung = None /\ max_workers <= 0) ~> (tpc = "raised")

C16_Witness ==
    /\ hung = Some(<<"en", "title">>)
    /\ target_langs = <<"en", "iw">>
    /\ max_workers = 2
    /\ <<"en", "title">> \in inflight
    /\ tstate["iw"] = "collected"
    /\ DictHas(metadata, "iw")
    /\ tpc = "collect"

(* ---------------------------------------------------------------------- *)
(* Properties of the upload stage                                         *)
(* ---------------------------------------------------------------------- *)

\* The localizations map attached to the request that was built.
AttachedLocalizations ==
    IF request # None /\ "localizations" \in DOMAIN request[1].body
    THEN request[1].body.localizations
    ELSE <<>>

\* An entry's record has no title or no description, or an empty one.
LacksData(data) ==
    \/ "title" \notin DOMAIN data \/ "description" \notin DOMAIN data
    \/ data.title = <<>> \/ data.description = <<>>

SkippedSet == {skipped[i] : i \in DOMAIN skipped}

RunUploadBuilt == uop = "run.upload_video" /\ request # None

\* C3: every key of the localizations map run.py upload_video builds and
\* attaches is a member of the supported set and is the platform form of a
\* document key; a zh-CN entry with data appears under zh-Hans exactly when
\* zh-Hans is supported, and no key is a canonical code such as zh-CN.
C3_KeysSupported ==
    RunUploadBuilt =>
        /\ AttachedLocalizations = localizations
        /\ \A k \in DictKeys(localizations) :
              /\ k \in supported_langs
              /\ k \notin {"iw", "zh-CN", "zh-TW", "fil"}
              /\ \E i \in DOMAIN udoc :
                    /\ udoc[i].key # "default"
                    /\ k = (CASE udoc[i].key = "iw" -> "he"
                              [] udoc[i].key = "zh-CN" -> "zh-Hans"
                              [] udoc[i].key = "zh-TW" -> "zh-Hant"
                              [] udoc[i].key = "fil" -> "tl"
                              [] OTHER -> udoc[i].key)
        /\ (DictHas(udoc, "zh-CN") /\ ~LacksData(DictGet(udoc, "zh-CN"))) =>
              (DictHas(localizations, "zh-Hans") <=> "zh-Hans" \in supported_langs)

C3_Witness ==
    /\ RunUploadBuilt
    /\ DictHas(udoc, "zh-CN")
    /\ {"zh-CN", "zh-Hans"} \subseteq supported_langs
    /\ DictHas(AttachedLocalizations, "zh-Hans")
    /\ DictGet(AttachedLocalizations, "zh-Hans").title = <<"T", "zh-CN">>

\* An entry lacking data is not attached: no localization value is blank,
\* and its platform key is absent unless another entry supplies it.
LackingNeverAttached ==
    /\ \A i \in DOMAIN localizations :
          /\ DOMAIN localizations[i].val = {"title", "description"}
          /\ localizations[i].val.title # <<>>
          /\ localizations[i].val.description # <<>>
    /\ "default" \notin DictKeys(localizations)
    /\ \A i \in DOMAIN udoc :
          (udoc[i].key # "default" /\ LacksData(udoc[i].val)) =>
              \A j \in DOMAIN localizations :
                  localizations[j].val.title # <<"T", udoc[i].key>>

\* C4 (as stated): an entry lacking a title or a description is never
\* attached, and every such entry is skipped with the "no data" reason.
C4_AlwaysNoDataReason ==
    RunUploadBuilt =>
        /\ LackingNeverAttached
        /\ \A i \in DOMAIN udoc :
              (udoc[i].key # "default" /\ LacksData(udoc[i].val)) =>
                  <<udoc[i].key, NoData>> \in SkippedSet

\* C4 (amended): an entry lacking a title or a description is never
\* attached and default is never a localization; the entry is skipped with
\* the "no data" reason when its record is non-empty, and skipped without
\* any reason when its record is empty.
C4_NoBlankLocalization ==
    RunUploadBuilt =>
        /\ AttachedLocalizations = localizations
        /\ LackingNeverAttached
        /\ \A i \in DOMAIN udoc :
              (udoc[i].key # "default" /\ LacksData(udoc[i].val)) =>
                  IF DOMAIN udoc[i].val # {}
                  THEN <<udoc[i].key, NoData>> \in SkippedSet
                  ELSE \A r \in SkippedSet : r[1] # udoc[i].key

C4_Witness ==
    /\ RunUploadBuilt
    /\ \E i, j, k \in DOMAIN udoc :
          /\ udoc[i].key # "default" /\ udoc[i].val = EmptyRec
          /\ udoc[j].key # "default" /\ DOMAIN udoc[j].val # {} /\ LacksData(udoc[j].val)
          /\ <<udoc[j].key, NoData>> \in SkippedSet
          /\ udoc[k].key = "default"
    /\ localizations = <<>>

\* C5: in every videos.insert and videos.update request, of run.py and of
\* upload.py, no attached localization has an empty title or description
\* and every key is in the supported-language set.
C5_EveryRequestFiltered ==
    request # None =>
        \A i \in DOMAIN AttachedLocalizations :
            /\ AttachedLocalizations[i].val.title # <<>>
            /\ AttachedLocalizations[i].val.description # <<>>
            /\ AttachedLocalizations[i].key \in
                  (IF uop = "run.upload_video" THEN supported_langs ELSE platform_langs)

\* C6: the chunk loop prints one progress line per intermediate tuple (its
\* percentage), never calls next_chunk after the terminal tuple, and
\* returns the terminal response's identifier, only then.
C6_ChunkLoop ==
    uop \in {"run.upload_video", "upload.upload_video"} =>
        /\ Len(events) = Cardinality({i \in DOMAIN answers : answers[i].status # None})
        /\ \A i \in DOMAIN events :
              /\ answers[i].status # None
              /\ events[i] = (answers[i].status[1].resumable_progress * 100)
                                \div answers[i].status[1].total_size
        /\ \A i \in DOMAIN answers : i < Len(answers) => answers[i].response = None
        /\ upc = "returned" =>
              /\ answers # <<>>
              /\ answers[Len(answers)].response # None
              /\ retval = Some(answers[Len(answers)].response[1].id)
        /\ retval # None => upc = "returned"

C6_Witness ==
    /\ uop = "upload.upload_video" /\ upc = "returned"
    /\ Len(events) >= 2 /\ events[1] < events[2]
    /\ Len(answers) = Len(events) + 1
    /\ retval = Some("vidB")

\* update_localizations has fetched the video and has built its map.
UpdateMapBuilt ==
    /\ uop = "upload.update_localizations"
    /\ response # None /\ response[1].items # <<>>

OnlyDefault(doc) == \A i \in DOMAIN doc : doc[i].key = "default"

\* C15: in update_localizations, when the localizations map built from the
\* document is empty (the document holds no key other than `default`), no
\* videos.update request is built or sent and True is returned.
C15_EmptyUpdateIsNoOp ==
    UpdateMapBuilt =>
        /\ localizations = <<>> <=> OnlyDefault(udoc)
        /\ localizations = <<>> =>
              /\ request = None
              /\ raised_calls = <<>>
              /\ upc = "returned"
              /\ retval = Some(TRUE)
        /\ localizations # <<>> => request # None /\ request[1].kind = "update"

C15_Witness ==
    /\ UpdateMapBuilt
    /\ Len(udoc) = 1 /\ udoc[1].key = "default"
    /\ request = None
    /\ retval = Some(TRUE)

\* C17: no step of run.py upload_video, upload.py upload_video or
\* update_localizations changes the document passed in: it keeps its keys, in
\* their order, and the title, description and language stored under each,
\* whether the call returns or raises.
C17_DocumentNotMutated ==
    [][/\ Len(udoc') = Len(udoc)
       /\ \A i \in DOMAIN udoc :
             /\ udoc'[i].key = udoc[i].key
             /\ DOMAIN udoc'[i].val = DOMAIN udoc[i].val
             /\ \A f \in DOMAIN udoc[i].val : udoc'[i].val[f] = udoc[i].val[f]]_vars

C17_Witness ==
    /\ uop = "upload.update_localizations"
    /\ upc = "returned" /\ retval = Some(FALSE)
    /\ request # None
    /\ Len(udoc) = 3
    /\ udoc[1].key = "default"
    /\ DOMAIN udoc[2].val = {"title"}
    /\ udoc[3].val = EmptyRec
    /\ DOMAIN DictGet(request[1].body.localizations, udoc[2].key) = {"title", "description"}

InsertBuilt == request # None /\ request[1].kind = "insert"

PartSet == {request[1].part[i] : i \in DOMAIN request[1].part}

\* C18: in every videos.insert request upload_video builds (run.py and
\* upload.py), the body has a localizations field exactly when the part list
\* names localizations, and exactly when the localizations map the function
\* built is non-empty; snippet and status are always in the part list and in
\* the body, with selfDeclaredMadeForKids false.
C18_PartsMatchBody ==
    InsertBuilt =>
        /\ uop \in {"run.upload_video", "upload.upload_video"}
        /\ ("localizations" \in DOMAIN request[1].body) <=> ("localizations" \in PartSet)
        /\ ("localizations" \in PartSet) <=> (localizations # <<>>)
        /\ "localizations" \in DOMAIN request[1].body =>
              request[1].body.localizations = localizations
        /\ {"snippet", "status"} \subseteq PartSet
        /\ PartSet \subseteq {"snippet", "status", "localizations"}
        /\ Len(request[1].part) = Cardinality(PartSet)
        /\ {"snippet", "status"} \subseteq DOMAIN request[1].body
        /\ request[1].body.status.selfDeclaredMadeForKids = FALSE

C18_Witness ==
    /\ InsertBuilt
    /\ uop = "run.upload_video"
    /\ Len(skipped) = 2
    /\ localizations = <<>>
    /\ request[1].part = <<"snippet", "status">>
    /\ DOMAIN request[1].body = {"snippet", "status"}

C18_WitnessAttached ==
    /\ InsertBuilt
    /\ uop = "upload.upload_video"
    /\ Len(localizations) = 2
    /\ request[1].part = <<"snippet", "status", "localizations">>

PlatformKey(k) ==
    CASE k = "iw" -> "he" [] k = "zh-CN" -> "zh-Hans" [] k = "zh-TW" -> "zh-Hant"
      [] k = "fil" -> "tl" [] OTHER -> k

QueryFailed == raised_calls # <<>> /\ raised_calls[1] = "i18nLanguages.list"

SeqSet(q) == {q[i] : i \in DOMAIN q}

EndsWithSrt(name) ==
    /\ Len(name) >= 4
    /\ name[Len(name) - 3] = "." /\ name[Len(name) - 2] = "s"
    /\ name[Len(name) - 1] = "r" /\ name[Len(name)] = "t"

\* C7: upload_captions attempts exactly the *.srt files of the directory,
\* each once, in ascending file-name order, with language = stem; a failed
\* upload does not stop the loop; success and failed are disjoint and
\* together hold the stems of the files attempted, all of them on return.
C7_CaptionBatch ==
    cpc \in {"loop", "returned"} =>
        /\ SeqSet(srt_files) = {f \in cdir : EndsWithSrt(f)}
        /\ \A i, j \in DOMAIN srt_files : i < j => NameLess(srt_files[i], srt_files[j])
        /\ Len(cattempts) = cidx
        /\ \A i \in DOMAIN cattempts :
              /\ cattempts[i].path = srt_files[i]
              /\ cattempts[i].language \o <<".", "s", "r", "t">> = cattempts[i].path
              /\ cattempts[i].name = cattempts[i].language
        /\ SeqSet(csuccess) \cap SeqSet(cfailed) = {}
        /\ SeqSet(csuccess) \cup SeqSet(cfailed) = {cattempts[i].language : i \in DOMAIN cattempts}
        /\ Len(csuccess) + Len(cfailed) = cidx
        /\ cpc = "returned" => cidx = Len(srt_files)
        /\ (cpc = "returned" /\ cdir = {<<"e", "n", ".", "s", "r", "t">>,
                                        <<"k", "o", ".", "s", "r", "t">>,
                                        <<"r", "e", "a", "d", "m", "e", ".", "t", "x", "t">>}) =>
              [i \in DOMAIN cattempts |-> cattempts[i].language] = << <<"e", "n">>, <<"k", "o">> >>

C7_Witness ==
    /\ cpc = "returned"
    /\ cdir = {<<"e", "n", ".", "s", "r", "t">>, <<"k", "o", ".", "s", "r", "t">>,
               <<"r", "e", "a", "d", "m", "e", ".", "t", "x", "t">>}
    /\ cfailed = << <<"e", "n">> >>
    /\ csuccess = << <<"k", "o">> >>

(* ---------------------------------------------------------------------- *)
(* Properties of main (run.py)                                            *)
(* ---------------------------------------------------------------------- *)

TranslationCallIssued == \E l \in Langs : calls[l].title > 0 \/ calls[l].description > 0

UploadCallMade == upc # "idle" \/ request # None

\* C10: when run.py main exits for a configuration error (input file,
\* video or title field, video file, GEMINI_API_KEY, client_secrets.json),
\* no translation call has been issued, metadata.json has not been written
\* and no upload call has been made.
C10_NoPartialRun ==
    mpc = "exit" =>
        /\ ~TranslationCallIssued
        /\ metadata_file = None
        /\ ~UploadCallMade

\* The entries of the document that pass the data filter and the
\* supported-language filter of the reconciler loop.
PassingEntries ==
    {i \in DOMAIN udoc :
        /\ udoc[i].key # "default"
        /\ ~LacksData(udoc[i].val)
        /\ PlatformKey(udoc[i].key) \in supported_langs}

\* The document holds a canonical code together with its platform form.
HoldsBothForms ==
    \E i, j \in DOMAIN udoc :
        i # j /\ udoc[i].key # udoc[j].key /\ PlatformKey(udoc[i].key) = udoc[j].key

\* C22: in the reconciler loop of run.py upload_video the passing entries
\* are attached under distinct platform keys: there are as many
\* localizations as passing entries, and each passing entry's title and
\* description are the ones attached under its platform key.
C22_NoSilentOverwrite ==
    RunUploadBuilt =>
        /\ Len(localizations) = Cardinality(PassingEntries)
        /\ \A i \in PassingEntries :
              /\ DictHas(localizations, PlatformKey(udoc[i].key))
              /\ DictGet(localizations, PlatformKey(udoc[i].key)).title = udoc[i].val.title

\* Without a canonical code and its platform form side by side, nothing is
\* overwritten.
C22_HoldsWithoutBothForms == HoldsBothForms \/ C22_NoSilentOverwrite

\* The document json.load would read back from metadata.json.
PersistedDocument ==
    [i \in DOMAIN metadata_file[1] |->
        [key |-> metadata_file[1][i].name,
         val |-> LET ms == metadata_file[1][i].value
                 IN  [n \in {ms[k].name : k \in DOMAIN ms} |->
                         ms[CHOOSE k \in DOMAIN ms : ms[k].name = n].value]]]

\* upload_video of run.py has been called.
RunUploadStarted == prog = "run.py" /\ uop = "run.upload_video"

\* C21: in run.py main without --skip-translate, upload_video is called only
\* once every translation task has completed and been collected and the
\* document has been written to metadata.json, and the document it is given
\* is the one written; with --skip-translate no translation call is issued,
\* metadata.json is not written, and the document given to upload_video
\* holds the `default` entry alone.
C21_TranslatePersistUpload ==
    prog = "run.py" =>
        /\ (RunUploadStarted /\ ~skip_translate) =>
              /\ tpc = "returned"
              /\ \A l \in TargetSet : tstate[l] = "collected" /\ calls[l].title = 1
              /\ inflight = {} /\ running = {} /\ workq = <<>>
              /\ completed = Len(target_langs)
              /\ metadata_file # None
              /\ Len(metadata_file[1]) = Len(udoc)
              /\ PersistedDocument = udoc
              /\ udoc = metadata
        /\ skip_translate =>
              /\ ~TranslationCallIssued
              /\ tpc = "idle"
              /\ metadata_file = None
              /\ RunUploadStarted =>
                    /\ Len(udoc) = 1
                    /\ udoc[1].key = "default"
                    /\ udoc[1].val = [title |-> title, description |-> description,
                                      language |-> source_lang]

C21_Witness ==
    /\ RunUploadStarted /\ ~skip_translate
    /\ mpc = "done"
    /\ Len(target_langs) = 1
    /\ DictHas(udoc, target_langs[1])
    /\ Len(metadata_file[1]) = 3
    /\ metadata_file[1][3].name = target_langs[1]
    /\ Len(metadata_file[1][3].value) = 2

C21_WitnessSkip ==
    /\ RunUploadStarted /\ skip_translate
    /\ mpc = "done"
    /\ target_langs # <<>>
    /\ Len(udoc) = 1

====
